---- MODULE Spec2Model ----
(***************************************************************************)
(* Model of the xtrntr/exchange limit-order exchange: the in-memory order  *)
(* book and matching engine (package exchange), the persistence gateway    *)
(* (package db) and the HTTP handlers that drive both (package api).       *)
(*                                                                         *)
(* Prices and quantities are float64 in the source; they are modelled as   *)
(* positive integers (ticks).  min(a,b) and a - min(a,b) are exact in      *)
(* both arithmetics whenever the result is zero, so "reaches zero" and     *)
(* the comparisons of the matching loop are preserved.                     *)
(***************************************************************************)
EXTENDS Integers, Sequences, FiniteSets, TLC

\* ------------------------------------------------------------------ bounds
MaxPrice == 2
MaxQty == 2
MaxTime == 2
MaxCalls == 3
MaxOrders == 2
MaxTrades == 2
NumProcs == 2
NumCallers == 3

Prices == 1..MaxPrice
Qtys == 1..MaxQty
Times == 1..MaxTime
Users == {1, 2}
Sides == {"buy", "sell"}

VARIABLES
    BuyOrders,    \* Exchange.BuyOrders
    SellOrders,   \* Exchange.SellOrders
    nextID,       \* next value of the orders.id SERIAL sequence
    call,         \* history: the last call recorded on the Exchange (arguments,
                  \* the book before it, its results)
    dbOrders,     \* table orders: sequence of rows, row i has id i
    dbTrades,     \* table trades: sequence of rows in insertion order
    rowLock,      \* row-level lock on orders: id -> holder (0 = free)
    clock,        \* CURRENT_TIMESTAMP of the database
    pc,           \* position of each request goroutine
    loc,          \* locals of each request goroutine
    out,          \* the HTTP response written by the last step, if any
    canceledQty,  \* history, per side: quantity that was remaining when a cancel committed
    tradedQty     \* history: total quantity of the trades MatchOrder returned to the handlers

vars == <<BuyOrders, SellOrders, nextID, call, dbOrders, dbTrades, rowLock,
          clock, pc, loc, out, canceledQty, tradedQty>>
bookVars == <<BuyOrders, SellOrders>>
dbVars == <<dbOrders, dbTrades, rowLock, clock>>
procVars == <<pc, loc, out>>

\* ------------------------------------------------------------ models.Order
Order(id, uid, type, price, qty, status, createdAt) ==
    [ID |-> id, UserID |-> uid, Type |-> type, Price |-> price,
     Quantity |-> qty, Status |-> status, CreatedAt |-> createdAt]

Trade(buyID, sellID, price, qty) ==
    [BuyOrderID |-> buyID, SellOrderID |-> sellID, Price |-> price, Quantity |-> qty]

NoOrder == Order(0, 0, "none", 0, 0, "none", 0)

\* ---------------------------------------------------------------- helpers
RECURSIVE SumQty(_)
SumQty(s) == IF s = <<>> THEN 0 ELSE Head(s).Quantity + SumQty(Tail(s))

IDs(s) == {s[i].ID : i \in 1..Len(s)}
Find(s, id) == CHOOSE i \in 1..Len(s) : s[i].ID = id

min(a, b) == IF a < b THEN a ELSE b

\* ---------------------------------------------------------------- Exchange
NewExchange == [BuyOrders |-> <<>>, SellOrders |-> <<>>]

\* the less function handed to sort.Slice for one side
SortLessMutTime(type, a, b) ==
    IF a.Price = b.Price
    THEN a.CreatedAt > b.CreatedAt
    ELSE IF type = "buy" THEN a.Price > b.Price ELSE a.Price < b.Price

SortLess(type, a, b) ==
    IF a.Price = b.Price
    THEN a.CreatedAt < b.CreatedAt
    ELSE IF type = "buy" THEN a.Price > b.Price ELSE a.Price < b.Price

SortSliceMutPriceOnly(s, type) ==
    LET n == Len(s)
        perms == {f \in [1..n -> 1..n] : \A i, j \in 1..n : i # j => f[i] # f[j]}
    IN {t \in {[i \in 1..n |-> s[f[i]]] : f \in perms} :
            \A i, j \in 1..n : i < j =>
                IF type = "buy" THEN t[i].Price >= t[j].Price ELSE t[i].Price <= t[j].Price}

\* sort.Slice: some permutation of s that is ordered by less; the sort is
\* not stable, so elements that compare equal may come out in any order
SortSlice(s, type) ==
    LET n == Len(s)
        perms == {f \in [1..n -> 1..n] : \A i, j \in 1..n : i # j => f[i] # f[j]}
    IN {t \in {[i \in 1..n |-> s[f[i]]] : f \in perms} :
            \A i, j \in 1..n : i < j => ~SortLess(type, t[j], t[i])}

AddOrderMutAppend(book, order) ==
    IF order.Type = "buy"
    THEN {[book EXCEPT !.BuyOrders = Append(book.BuyOrders, order)]}
    ELSE {[book EXCEPT !.SellOrders = Append(book.SellOrders, order)]}

\* AddOrder: the set of books the call can leave behind
AddOrder(book, order) ==
    IF order.Type = "buy"
    THEN {[book EXCEPT !.BuyOrders = t] : t \in SortSlice(Append(book.BuyOrders, order), "buy")}
    ELSE {[book EXCEPT !.SellOrders = t] : t \in SortSlice(Append(book.SellOrders, order), "sell")}

\* the price test of the matching loop
CrossesMutStrict(newOrder, resting) ==
    IF newOrder.Type = "buy" THEN resting.Price < newOrder.Price
                             ELSE resting.Price > newOrder.Price

CrossesMutAlways(newOrder, resting) == TRUE

Crosses(newOrder, resting) ==
    IF newOrder.Type = "buy"
    THEN resting.Price <= newOrder.Price
    ELSE resting.Price >= newOrder.Price

TradePriceMutTaker(newOrder, resting) == newOrder.Price

TradePrice(newOrder, resting) == resting.Price

TradeQtyMutResting(newOrder, resting) == resting.Quantity

TradeQty(newOrder, resting) == min(newOrder.Quantity, resting.Quantity)

NewTradeMutSwapped(newOrder, resting, tradePrice, tradeQty) ==
    IF newOrder.Type = "buy"
    THEN Trade(resting.ID, newOrder.ID, tradePrice, tradeQty)
    ELSE Trade(newOrder.ID, resting.ID, tradePrice, tradeQty)

\* the trade of the incoming order with one resting order
NewTrade(newOrder, resting, tradePrice, tradeQty) ==
    IF newOrder.Type = "buy"
    THEN Trade(newOrder.ID, resting.ID, tradePrice, tradeQty)
    ELSE Trade(resting.ID, newOrder.ID, tradePrice, tradeQty)

ReportFilledMutAlways(filled, qty, id) == Append(filled, id)

\* filledOrderIDs after an order was left with qty by a trade
ReportFilled(filled, qty, id) == IF qty <= 0 THEN Append(filled, id) ELSE filled

\* one loop of MatchOrder over the opposing side, from index i
RECURSIVE MatchLoop(_, _, _, _, _)
MatchLoop(resting, newOrder, i, trades, filled) ==
    IF i > Len(resting)
    THEN [resting |-> resting, newOrder |-> newOrder, trades |-> trades, filled |-> filled]
    ELSE IF resting[i].Status # "open" \/ newOrder.Quantity <= 0
    THEN MatchLoop(resting, newOrder, i + 1, trades, filled)
    ELSE IF Crosses(newOrder, resting[i])
    THEN LET tradeQty == TradeQty(newOrder, resting[i])
             tradePrice == TradePrice(newOrder, resting[i])
             trade == NewTrade(newOrder, resting[i], tradePrice, tradeQty)
             newQ == newOrder.Quantity - tradeQty
             restQ == resting[i].Quantity - tradeQty
             filled1 == ReportFilled(filled, newQ, newOrder.ID)
             filled2 == ReportFilled(filled1, restQ, resting[i].ID)
             resting2 == [resting EXCEPT ![i].Quantity = restQ,
                                         ![i].Status = IF restQ <= 0 THEN "filled" ELSE @]
             newOrder2 == [newOrder EXCEPT !.Quantity = newQ]
         IN IF newQ <= 0
            THEN [resting |-> resting2, newOrder |-> newOrder2,
                  trades |-> Append(trades, trade), filled |-> filled2]
            ELSE MatchLoop(resting2, newOrder2, i + 1, Append(trades, trade), filled2)
    ELSE MatchLoop(resting, newOrder, i + 1, trades, filled)

IsLiveMutAll(order) == TRUE

IsLive(order) == order.Status = "open" /\ order.Quantity > 0

cleanupOrderBookMutReversed(book) ==
    LET rev(s) == [i \in 1..Len(s) |-> s[Len(s) + 1 - i]]
    IN [BuyOrders |-> rev(SelectSeq(book.BuyOrders, IsLive)),
        SellOrders |-> rev(SelectSeq(book.SellOrders, IsLive))]

cleanupOrderBook(book) ==
    [BuyOrders |-> SelectSeq(book.BuyOrders, IsLive),
     SellOrders |-> SelectSeq(book.SellOrders, IsLive)]

UnfilledMutAlways(newOrder) == TRUE

\* what is left of the incoming order goes into the book
Unfilled(newOrder) == newOrder.Quantity > 0 /\ newOrder.Status = "open"

\* MatchOrder: the set of outcomes [book, trades, filledOrderIDs] of one call
MatchOrder(book, newOrder) ==
    LET r == IF newOrder.Type = "buy"
             THEN MatchLoop(book.SellOrders, newOrder, 1, <<>>, <<>>)
             ELSE MatchLoop(book.BuyOrders, newOrder, 1, <<>>, <<>>)
        scanned == IF newOrder.Type = "buy"
                   THEN [book EXCEPT !.SellOrders = r.resting]
                   ELSE [book EXCEPT !.BuyOrders = r.resting]
        cleaned == cleanupOrderBook(scanned)
        books == IF Unfilled(r.newOrder)
                 THEN AddOrder(cleaned, r.newOrder)
                 ELSE {cleaned}
    IN {[book |-> b, trades |-> r.trades, filledOrderIDs |-> r.filled] : b \in books}

RemoveOrderMutBuyOnly(book, id) ==
    LET keep(o) == o.ID # id
    IN [book |-> [book EXCEPT !.BuyOrders = SelectSeq(book.BuyOrders, keep)],
        found |-> id \in IDs(book.BuyOrders) \cup IDs(book.SellOrders)]

\* RemoveOrder: delete the order from whichever side holds it, report whether found
RemoveOrder(book, id) ==
    LET keep(o) == o.ID # id
    IN [book |-> [BuyOrders |-> SelectSeq(book.BuyOrders, keep),
                  SellOrders |-> SelectSeq(book.SellOrders, keep)],
        found |-> id \in IDs(book.BuyOrders) \cup IDs(book.SellOrders)]

GetOrderBookMutSwapped(book) ==
    [book |-> book, BuyOrders |-> book.SellOrders, SellOrders |-> book.BuyOrders]

\* GetOrderBook: the two slices it returns, and the book it leaves
GetOrderBook(book) ==
    [book |-> book, BuyOrders |-> book.BuyOrders, SellOrders |-> book.SellOrders]

Book == [BuyOrders |-> BuyOrders, SellOrders |-> SellOrders]

\* ===================================================== the Exchange, alone
\* The Exchange driven call by call, as exchange_test.go drives it: orders
\* are open, have positive price and quantity, and carry distinct ids.
NoCall ==
    [op |-> "none", order |-> NoOrder, id |-> 0, pre |-> NewExchange,
     trades |-> <<>>, filled |-> <<>>, found |-> FALSE, ret |-> NewExchange]

Procs == 1..NumProcs
Callers == 1..NumCallers

\* history kept with a request: the book and the tables it started from
NoPre == [book |-> NewExchange, trades |-> <<>>, orders |-> <<>>]

NoLoc ==
    [order |-> NoOrder, trades |-> <<>>, filled |-> <<>>, id |-> 0, uid |-> 0, err |-> "nil",
     pre |-> NoPre]
NoOut == [proc |-> 0, status |-> "none", text |-> "none"]

IdleProcs(P) ==
    /\ pc = [p \in P |-> "idle"]
    /\ loc = [p \in P |-> NoLoc]
    /\ out = NoOut

EmptyDB ==
    /\ dbOrders = <<>>
    /\ dbTrades = <<>>
    /\ rowLock = [i \in 1..MaxOrders |-> 0]
    /\ clock = 1

InitBook ==
    /\ BuyOrders = NewExchange.BuyOrders
    /\ SellOrders = NewExchange.SellOrders
    /\ nextID = 1
    /\ call = NoCall
    /\ EmptyDB
    /\ IdleProcs(Procs)
    /\ canceledQty = [s \in Sides |-> 0]
    /\ tradedQty = 0

InputOrders(id) ==
    {Order(id, 1, t, p, q, "open", c) :
        t \in Sides, p \in Prices, q \in Qtys, c \in Times}

ExAddOrder ==
    /\ nextID <= MaxCalls
    /\ \E order \in InputOrders(nextID) : \E b \in AddOrder(Book, order) :
        /\ BuyOrders' = b.BuyOrders
        /\ SellOrders' = b.SellOrders
        /\ call' = [NoCall EXCEPT !.op = "AddOrder", !.order = order, !.pre = Book]
    /\ nextID' = nextID + 1
    /\ UNCHANGED <<dbVars, procVars, canceledQty, tradedQty>>

ExMatchOrder ==
    /\ nextID <= MaxCalls
    /\ \E order \in InputOrders(nextID) : \E r \in MatchOrder(Book, order) :
        /\ BuyOrders' = r.book.BuyOrders
        /\ SellOrders' = r.book.SellOrders
        /\ call' = [NoCall EXCEPT !.op = "MatchOrder", !.order = order, !.pre = Book,
                                  !.trades = r.trades, !.filled = r.filledOrderIDs]
    /\ nextID' = nextID + 1
    /\ UNCHANGED <<dbVars, procVars, canceledQty, tradedQty>>

ExRemoveOrder ==
    /\ \E id \in 1..MaxCalls :
        LET r == RemoveOrder(Book, id)
        IN /\ BuyOrders' = r.book.BuyOrders
           /\ SellOrders' = r.book.SellOrders
           /\ call' = [NoCall EXCEPT !.op = "RemoveOrder", !.id = id, !.pre = Book,
                                     !.found = r.found]
    /\ UNCHANGED <<nextID, dbVars, procVars, canceledQty, tradedQty>>

ExGetOrderBook ==
    /\ LET r == GetOrderBook(Book)
       IN /\ BuyOrders' = r.book.BuyOrders
          /\ SellOrders' = r.book.SellOrders
          /\ call' = [NoCall EXCEPT !.op = "GetOrderBook", !.pre = Book,
                                    !.ret = [BuyOrders |-> r.BuyOrders,
                                             SellOrders |-> r.SellOrders]]
    /\ UNCHANGED <<nextID, dbVars, procVars, canceledQty, tradedQty>>

NextBook == ExAddOrder \/ ExMatchOrder \/ ExRemoveOrder \/ ExGetOrderBook

SpecBook == InitBook /\ [][NextBook]_vars

\* ================================================== the persistence gateway
\* The store is an external collaborator: CreateOrder, CreateTrade and
\* UpdateOrderStatus may fail (PersistenceError); the statements of the
\* CancelOrder transaction are taken to execute (its interface returns no
\* PersistenceError).
Respond(p, status, text) == out' = [proc |-> p, status |-> status, text |-> text]
Silent == out' = NoOut

Exists(id) == id \in 1..Len(dbOrders)

\* the tests on the side, the price and the quantity of an order
ValidSide(type) == type \in Sides

PositiveMutNonNegative(x) == x >= 0

Positive(x) == x > 0

\* DB.CreateOrder before the INSERT: the error of its checks
CreateOrderError(order) ==
    IF ~ValidSide(order.Type) THEN "type must be 'buy' or 'sell'"
    ELSE IF ~Positive(order.Price) THEN "price must be positive"
    ELSE IF ~Positive(order.Quantity) THEN "quantity must be positive"
    ELSE IF order.UserID \notin Users THEN "user not found"
    ELSE "nil"

\* INSERT INTO orders ... RETURNING: the row as stored
CreateOrder(order, now) ==
    Order(nextID, order.UserID, order.Type, order.Price, order.Quantity,
          order.Status, now)

\* INSERT INTO trades ... RETURNING: the row as stored; ids are serial and
\* executed_at is the time of the insert
CreateTrade(trade, now) ==
    [ID |-> Len(dbTrades) + 1, BuyOrderID |-> trade.BuyOrderID,
     SellOrderID |-> trade.SellOrderID, Price |-> trade.Price,
     Quantity |-> trade.Quantity, ExecutedAt |-> now]

\* the rows of trades JOIN orders ON buy_order_id = o.id OR sell_order_id =
\* o.id WHERE o.user_id = userID, trade by trade: a trade comes once for
\* each of its orders that the user owns
RECURSIVE JoinUserOrders(_, _)
JoinUserOrders(userID, k) ==
    IF k > Len(dbTrades) THEN <<>>
    ELSE LET t == dbTrades[k]
             mine(id) == id \in 1..Len(dbOrders) /\ dbOrders[id].UserID = userID
             buy == IF mine(t.BuyOrderID) THEN <<t>> ELSE <<>>
             sell == IF mine(t.SellOrderID) THEN <<t>> ELSE <<>>
         IN buy \o sell \o JoinUserOrders(userID, k + 1)

\* GetUserTrades: the sequences the query can return; it has no ORDER BY,
\* so the rows come in any order
GetUserTrades(userID) ==
    LET rows == JoinUserOrders(userID, 1)
        n == Len(rows)
        perms == {f \in [1..n -> 1..n] : \A i, j \in 1..n : i # j => f[i] # f[j]}
    IN {[i \in 1..n |-> rows[f[i]]] : f \in perms}

\* UPDATE orders SET status = $1 WHERE id = $2
UpdateOrderStatusMutNoop(rows, orderID, status) == rows

UpdateOrderStatus(rows, orderID, status) ==
    [i \in 1..Len(rows) |-> IF i = orderID THEN [rows[i] EXCEPT !.Status = status]
                                              ELSE rows[i]]

\* WHERE id = $1 AND user_id = $2
RowMatchesMutAnyUser(id, uid) == Exists(id)

RowMatches(id, uid) == Exists(id) /\ dbOrders[id].UserID = uid

\* the test on the status, in the Go code and in the UPDATE's WHERE clause
IsOpenMutAlways(status) == TRUE

IsOpen(status) == status = "open"

\* history only, for canceledQty: what an order has left when its cancel
\* commits: its quantity in the book, its full quantity while its own
\* PlaceOrder has not matched it yet, nothing once it was matched away
Remaining(id) ==
    LET all == BuyOrders \o SellOrders
    IN IF id \in IDs(all) THEN all[Find(all, id)].Quantity
       ELSE IF \E p \in DOMAIN pc : pc[p] = "match" /\ loc[p].order.ID = id
       THEN dbOrders[id].Quantity
       ELSE 0

\* DB.CancelOrder up to the status check: the error it returns there
CancelOrderSelect(id, uid) ==
    IF ~RowMatches(id, uid) THEN "order not found or not owned by user"
    ELSE IF ~IsOpen(dbOrders[id].Status) THEN "order not open"
    ELSE "nil"

\* SELECT ... FOR UPDATE waits while another transaction holds the row
CanLock(id, uid) == RowMatches(id, uid) => rowLock[id] = 0

\* DB.CancelOrder from the UPDATE on: the error it returns
CancelOrderUpdate(id, uid) ==
    LET rowsAffected == IF RowMatches(id, uid) /\ IsOpen(dbOrders[id].Status) THEN 1 ELSE 0
    IN IF rowsAffected = 0 THEN "order not found, not owned by user, or not open" ELSE "nil"

\* ============================================================ the handlers
Idle(p) ==
    /\ pc' = [pc EXCEPT ![p] = "idle"]
    /\ loc' = [loc EXCEPT ![p] = NoLoc]

Started == [book |-> Book, trades |-> dbTrades, orders |-> dbOrders]

\* Handler.PlaceOrder, "Validate input": the message of the 400 it writes
ValidateRequest(type, price, qty) ==
    IF ~ValidSide(type) THEN "Type must be 'buy' or 'sell'"
    ELSE IF ~Positive(price) \/ ~Positive(qty) THEN "Price and quantity must be positive"
    ELSE "nil"

\* Handler.PlaceOrder up to the return of DB.CreateOrder
PlaceOrderCreate(p) ==
    /\ pc[p] = "idle"
    /\ nextID <= MaxOrders
    /\ \E uid \in Users, type \in Sides \cup {"hold"}, price \in 0..MaxPrice, qty \in 0..MaxQty :
        LET invalid == ValidateRequest(type, price, qty)
            order == Order(0, uid, type, price, qty, "open", 0)
        IN IF invalid # "nil"
           THEN /\ Respond(p, "400", invalid)
                /\ UNCHANGED <<pc, loc, dbOrders, nextID, clock>>
           ELSE \/ /\ Respond(p, "500", "Failed to create order")
                   /\ UNCHANGED <<pc, loc, dbOrders, nextID, clock>>
                \/ /\ CreateOrderError(order) = "nil"
                   /\ LET dbOrder == CreateOrder(order, clock)
                      IN /\ dbOrders' = Append(dbOrders, dbOrder)
                         /\ nextID' = nextID + 1
                         /\ clock' = clock + 1
                         /\ loc' = [loc EXCEPT ![p] = [NoLoc EXCEPT !.order = dbOrder,
                                                                    !.pre = Started]]
                         /\ pc' = [pc EXCEPT ![p] = "match"]
                         /\ Silent
    /\ UNCHANGED <<bookVars, call, dbTrades, rowLock, canceledQty, tradedQty>>

\* Handler.PlaceOrder: the call of MatchOrder
PlaceOrderMatch(p) ==
    /\ pc[p] = "match"
    /\ \E r \in MatchOrder(Book, loc[p].order) :
        /\ BuyOrders' = r.book.BuyOrders
        /\ SellOrders' = r.book.SellOrders
        /\ tradedQty' = tradedQty + SumQty(r.trades)
        /\ IF r.trades = <<>> /\ r.filledOrderIDs = <<>>
           THEN /\ Idle(p)
                /\ Respond(p, "201", "Order placed")
           ELSE /\ loc' = [loc EXCEPT ![p].trades = r.trades, ![p].filled = r.filledOrderIDs]
                /\ pc' = [pc EXCEPT ![p] = IF r.trades = <<>> THEN "status" ELSE "trades"]
                /\ Silent
    /\ UNCHANGED <<nextID, call, dbVars, canceledQty>>

\* Handler.PlaceOrder: one round of the loop over trades
PlaceOrderCreateTrade(p) ==
    /\ pc[p] = "trades"
    /\ \/ /\ Idle(p)
          /\ Respond(p, "500", "Failed to record trade")
          /\ UNCHANGED dbTrades
       \/ /\ dbTrades' = Append(dbTrades, CreateTrade(Head(loc[p].trades), clock))
          /\ IF Len(loc[p].trades) = 1 /\ loc[p].filled = <<>>
             THEN /\ Idle(p)
                  /\ Respond(p, "201", "Order placed")
             ELSE /\ loc' = [loc EXCEPT ![p].trades = Tail(@)]
                  /\ pc' = [pc EXCEPT ![p] = IF Len(loc[p].trades) = 1 THEN "status" ELSE "trades"]
                  /\ Silent
    /\ UNCHANGED <<bookVars, nextID, call, dbOrders, rowLock, clock, canceledQty, tradedQty>>

\* Handler.PlaceOrder: one round of the loop over filledOrderIDs; the UPDATE
\* waits while a CancelOrder transaction holds the lock of the row
PlaceOrderUpdateStatus(p) ==
    /\ pc[p] = "status"
    /\ \/ /\ Idle(p)
          /\ Respond(p, "500", "Failed to update order status")
          /\ UNCHANGED dbOrders
       \/ /\ Exists(Head(loc[p].filled)) => rowLock[Head(loc[p].filled)] = 0
          /\ dbOrders' = UpdateOrderStatus(dbOrders, Head(loc[p].filled), "filled")
          /\ IF Len(loc[p].filled) = 1
             THEN /\ Idle(p)
                  /\ Respond(p, "201", "Order placed")
             ELSE /\ loc' = [loc EXCEPT ![p].filled = Tail(@)]
                  /\ UNCHANGED pc
                  /\ Silent
    /\ UNCHANGED <<bookVars, nextID, call, dbTrades, rowLock, clock, canceledQty, tradedQty>>

\* Handler.CancelOrder, DB.CancelOrder up to the status check; an error
\* rolls the transaction back and is written as a 400
CancelOrderBegin(p) ==
    /\ pc[p] = "idle"
    /\ \E id \in 1..(Len(dbOrders) + 1), uid \in Users :
        /\ CanLock(id, uid)
        /\ LET err == CancelOrderSelect(id, uid)
           IN IF err # "nil"
              THEN /\ Respond(p, "400", err)
                   /\ UNCHANGED <<pc, loc, rowLock>>
              ELSE /\ pc' = [pc EXCEPT ![p] = "cancel_tx"]
                   /\ loc' = [loc EXCEPT ![p] = [NoLoc EXCEPT !.id = id, !.uid = uid]]
                   /\ rowLock' = [rowLock EXCEPT ![id] = p]
                   /\ Silent
    /\ UNCHANGED <<bookVars, nextID, call, dbOrders, dbTrades, clock, canceledQty, tradedQty>>

\* Handler.CancelOrder, DB.CancelOrder from the UPDATE to the commit
CancelOrderCommit(p) ==
    /\ pc[p] = "cancel_tx"
    /\ LET id == loc[p].id
           err == CancelOrderUpdate(id, loc[p].uid)
       IN /\ IF err # "nil"
             THEN /\ Respond(p, "400", err)
                  /\ Idle(p)
                  /\ UNCHANGED <<dbOrders, canceledQty>>
             ELSE /\ dbOrders' = UpdateOrderStatus(dbOrders, id, "canceled")
                  /\ canceledQty' = [canceledQty EXCEPT ![dbOrders[id].Type] = @ + Remaining(id)]
                  /\ pc' = [pc EXCEPT ![p] = "cancel_remove"]
                  /\ UNCHANGED loc
                  /\ Silent
          /\ rowLock' = [rowLock EXCEPT ![id] = 0]
    /\ UNCHANGED <<bookVars, nextID, call, dbTrades, clock, tradedQty>>

\* what Handler.CancelOrder answers once RemoveOrder has returned
CancelResponseMutMiss(removed) ==
    IF removed THEN [status |-> "200", text |-> "Order canceled"]
    ELSE [status |-> "500", text |-> "Order not found in order book"]

CancelResponse(removed) == [status |-> "200", text |-> "Order canceled"]

\* Handler.CancelOrder after DB.CancelOrder returned nil; a miss of
\* RemoveOrder is logged only (call keeps what RemoveOrder returned)
CancelOrderRemove(p) ==
    /\ pc[p] = "cancel_remove"
    /\ LET r == RemoveOrder(Book, loc[p].id)
           resp == CancelResponse(r.found)
       IN /\ BuyOrders' = r.book.BuyOrders
          /\ SellOrders' = r.book.SellOrders
          /\ call' = [NoCall EXCEPT !.op = "RemoveOrder", !.id = loc[p].id,
                                    !.found = r.found]
          /\ Respond(p, resp.status, resp.text)
    /\ Idle(p)
    /\ UNCHANGED <<nextID, dbVars, canceledQty, tradedQty>>

Init ==
    /\ BuyOrders = NewExchange.BuyOrders
    /\ SellOrders = NewExchange.SellOrders
    /\ nextID = 1
    /\ call = NoCall
    /\ EmptyDB
    /\ IdleProcs(Procs)
    /\ canceledQty = [s \in Sides |-> 0]
    /\ tradedQty = 0

Next ==
    \E p \in Procs :
        \/ PlaceOrderCreate(p)
        \/ PlaceOrderMatch(p)
        \/ PlaceOrderCreateTrade(p)
        \/ PlaceOrderUpdateStatus(p)
        \/ CancelOrderBegin(p)
        \/ CancelOrderCommit(p)
        \/ CancelOrderRemove(p)

Spec == Init /\ [][Next]_vars

\* ================================================= DB.CancelOrder, alone
\* The rows TestDB_CancelOrder inserts (prices and quantities in ticks), and
\* goroutines that each call DB.CancelOrder once, as
\* TestDB_CancelOrder_Concurrent does.
CancelFixture ==
    <<Order(1, 1, "sell", 2, 1, "open", 1),
      Order(2, 2, "buy", 2, 1, "open", 1),
      Order(3, 1, "sell", 1, 2, "filled", 1),
      Order(4, 1, "sell", 1, 2, "canceled", 1)>>

InitCancel ==
    /\ BuyOrders = NewExchange.BuyOrders
    /\ SellOrders = NewExchange.SellOrders
    /\ nextID = Len(CancelFixture) + 1
    /\ call = NoCall
    /\ dbOrders = CancelFixture
    /\ dbTrades = <<>>
    /\ rowLock = [i \in 1..Len(CancelFixture) |-> 0]
    /\ clock = 1
    /\ IdleProcs(Callers)
    /\ canceledQty = [s \in Sides |-> 0]
    /\ tradedQty = 0

\* DB.CancelOrder up to the status check
TestCancelSelect(c) ==
    /\ pc[c] = "idle"
    /\ \E id \in 1..(Len(dbOrders) + 1), uid \in Users :
        /\ CanLock(id, uid)
        /\ LET err == CancelOrderSelect(id, uid)
               args == [NoLoc EXCEPT !.id = id, !.uid = uid, !.err = err]
           IN /\ loc' = [loc EXCEPT ![c] = args]
              /\ IF err # "nil"
                 THEN /\ pc' = [pc EXCEPT ![c] = "returned"]
                      /\ UNCHANGED rowLock
                 ELSE /\ pc' = [pc EXCEPT ![c] = "cancel_tx"]
                      /\ rowLock' = [rowLock EXCEPT ![id] = c]
    /\ UNCHANGED <<bookVars, nextID, call, dbOrders, dbTrades, clock, out,
                   canceledQty, tradedQty>>

\* DB.CancelOrder from the UPDATE to the commit
TestCancelCommit(c) ==
    /\ pc[c] = "cancel_tx"
    /\ LET id == loc[c].id
           err == CancelOrderUpdate(id, loc[c].uid)
       IN /\ loc' = [loc EXCEPT ![c].err = err]
          /\ dbOrders' = IF err = "nil" THEN UpdateOrderStatus(dbOrders, id, "canceled")
                                        ELSE dbOrders
          /\ rowLock' = [rowLock EXCEPT ![id] = 0]
    /\ pc' = [pc EXCEPT ![c] = "returned"]
    /\ UNCHANGED <<bookVars, nextID, call, dbTrades, clock, out, canceledQty, tradedQty>>

NextCancel == \E c \in Callers : TestCancelSelect(c) \/ TestCancelCommit(c)

SpecCancel == InitCancel /\ [][NextCancel]_vars

\* ------------------------------------------- properties of the Exchange
\* what the last MatchOrder call scanned, and what it left there
Opposing == IF call.order.Type = "buy" THEN call.pre.SellOrders ELSE call.pre.BuyOrders
OpposingAfter == IF call.order.Type = "buy" THEN SellOrders ELSE BuyOrders
RestingID(t) == IF call.order.Type = "buy" THEN t.SellOrderID ELSE t.BuyOrderID
IncomingID(t) == IF call.order.Type = "buy" THEN t.BuyOrderID ELSE t.SellOrderID
TradedIDs == {RestingID(call.trades[k]) : k \in 1..Len(call.trades)}
TradesWith(id) == LET hit(t) == RestingID(t) = id IN SelectSeq(call.trades, hit)
\* the resting order's remaining quantity reached zero in the last call
FullyFilled(o) == SumQty(TradesWith(o.ID)) = o.Quantity
Matched == call.op = "MatchOrder"

PriceTimeSorted(s, type) ==
    \A i, j \in 1..Len(s) : i < j =>
        /\ type = "buy" => s[i].Price >= s[j].Price
        /\ type = "sell" => s[i].Price <= s[j].Price
        /\ s[i].Price = s[j].Price => s[i].CreatedAt <= s[j].CreatedAt

\* C1: after any sequence of AddOrder calls BuyOrders is ordered by price
\* descending and SellOrders by price ascending, and orders of equal price
\* are ordered by CreatedAt ascending.
C1_BookSorted ==
    /\ PriceTimeSorted(BuyOrders, "buy")
    /\ PriceTimeSorted(SellOrders, "sell")

\* an AddOrder that put the new order ahead of a resting order of the same
\* price and a later CreatedAt
C1_Witness ==
    /\ call.op = "AddOrder"
    /\ \E s \in {BuyOrders, SellOrders} : \E i \in 1..Len(s) :
        /\ s[i].ID = call.order.ID
        /\ i < Len(s)
        /\ s[i].Price = s[i + 1].Price
        /\ s[i].CreatedAt < s[i + 1].CreatedAt
        /\ Len(s) = 3

\* C2: time priority.  Of two resting orders of one price on the opposing
\* side, the one with the later CreatedAt is a party to a trade of a
\* MatchOrder call only if the earlier one was fully filled in that call;
\* otherwise the later one is still in the book, unchanged.
C2_TimePriority ==
    Matched =>
        \A i, j \in 1..Len(Opposing) :
            (Opposing[i].Price = Opposing[j].Price
                /\ Opposing[i].CreatedAt < Opposing[j].CreatedAt) =>
            /\ Opposing[j].ID \in TradedIDs => FullyFilled(Opposing[i])
            /\ Opposing[j].ID \notin TradedIDs =>
                   \E k \in 1..Len(OpposingAfter) : OpposingAfter[k] = Opposing[j]

\* both orders of one price level traded, the earlier one filled first
C2_Witness ==
    /\ Matched
    /\ \E i, j \in 1..Len(Opposing) :
        /\ Opposing[i].Price = Opposing[j].Price
        /\ Opposing[i].CreatedAt < Opposing[j].CreatedAt
        /\ Opposing[i].ID \in TradedIDs
        /\ Opposing[j].ID \in TradedIDs
        /\ RestingID(call.trades[1]) = Opposing[i].ID

BetterPrice(a, b) ==
    IF call.order.Type = "buy" THEN a.Price < b.Price ELSE a.Price > b.Price

\* C3: price priority.  A resting order is a party to a trade only if every
\* resting order of the same side with a strictly better price was fully
\* filled in the same call, and the trades of a call follow the order of
\* the book.
C3_PricePriority ==
    Matched =>
        /\ \A i, j \in 1..Len(Opposing) :
            (BetterPrice(Opposing[i], Opposing[j]) /\ Opposing[j].ID \in TradedIDs)
                => FullyFilled(Opposing[i])
        /\ \A k, l \in 1..Len(call.trades) : k < l =>
            Find(Opposing, RestingID(call.trades[k]))
                < Find(Opposing, RestingID(call.trades[l]))

\* a call that traded at two price levels, the better one first
C3_Witness ==
    /\ Matched
    /\ Len(call.trades) = 2
    /\ \E i, j \in 1..Len(Opposing) :
        /\ BetterPrice(Opposing[i], Opposing[j])
        /\ RestingID(call.trades[1]) = Opposing[i].ID
        /\ RestingID(call.trades[2]) = Opposing[j].ID

\* the resting order of a trade, as it was when the call began
RestingOf(t) == Opposing[Find(Opposing, RestingID(t))]

\* C4: every trade is between crossing orders: an incoming buy trades only
\* with sells priced at or below its limit, an incoming sell only with buys
\* priced at or above its limit.
C4_TradesCross ==
    Matched =>
        \A k \in 1..Len(call.trades) :
            /\ RestingID(call.trades[k]) \in IDs(Opposing)
            /\ call.order.Type = "buy" =>
                   RestingOf(call.trades[k]).Price <= call.order.Price
            /\ call.order.Type = "sell" =>
                   RestingOf(call.trades[k]).Price >= call.order.Price

\* a call that traded with one resting order and, with quantity left,
\* passed over another one that did not cross
C4_Witness ==
    /\ Matched
    /\ Len(call.trades) = 1
    /\ call.order.ID \notin {call.filled[k] : k \in 1..Len(call.filled)}
    /\ \E i \in 1..Len(Opposing) :
        /\ Opposing[i].ID \notin TradedIDs
        /\ call.order.Type = "buy" => Opposing[i].Price > call.order.Price
        /\ call.order.Type = "sell" => Opposing[i].Price < call.order.Price

\* C5: the execution price of every trade is the price of the resting
\* (maker) order, never the limit of the incoming (taker) order.
C5_MakerPrice ==
    Matched =>
        \A k \in 1..Len(call.trades) :
            call.trades[k].Price = RestingOf(call.trades[k]).Price

\* a trade whose maker price differs from the taker's limit
C5_Witness ==
    /\ Matched
    /\ \E k \in 1..Len(call.trades) :
        /\ call.trades[k].Price # call.order.Price
        /\ call.trades[k].Price = RestingOf(call.trades[k]).Price

\* what the incoming order had left when trade k of the last call was made
IncomingLeft(k) == call.order.Quantity - SumQty(SubSeq(call.trades, 1, k - 1))

Quiescent == \A p \in DOMAIN pc : pc[p] = "idle"

Submitted(side) == LET on(o) == o.Type = side IN SumQty(SelectSeq(dbOrders, on))
OpenRemaining(side) == SumQty(IF side = "buy" THEN BuyOrders ELSE SellOrders)

\* C7: conservation of quantity.  Whenever no request is in flight, on each
\* side the remaining quantity of the open orders, plus the traded
\* quantity, plus the quantity that was remaining when orders were
\* canceled, equals the quantity originally submitted.
C7_Conservation ==
    Quiescent =>
        \A side \in Sides :
            OpenRemaining(side) + tradedQty + canceledQty[side] = Submitted(side)

Terminal(status) == status \in {"filled", "canceled"}

\* C8: a persisted status is terminal once it is not 'open': no step changes
\* a status that is 'filled' or 'canceled'.
C8_TerminalStatus ==
    [][\A i \in 1..Len(dbOrders) :
            Terminal(dbOrders[i].Status) => dbOrders'[i].Status = dbOrders[i].Status]_vars

Returned == {c \in DOMAIN pc : pc[c] = "returned"}
Winners == {c \in Returned : loc[c].err = "nil"}

C11_CancelIdempotent ==
    [][\A c \in DOMAIN pc :
        (pc[c] # "returned" /\ pc'[c] = "returned" /\ loc'[c].err = "nil") =>
            /\ dbOrders[loc'[c].id].Status = "open"
            /\ ~Terminal(CancelFixture[loc'[c].id].Status)
            /\ ~\E d \in Winners : loc[d].id = loc'[c].id]_vars

\* the owner's second cancel of order 1 failed after the first succeeded,
\* and the owner's cancel of the filled order 3 failed
C11_Witness ==
    /\ \E c, d \in Returned :
        /\ c # d
        /\ loc[c].id = 1 /\ loc[c].uid = 1 /\ loc[c].err = "nil"
        /\ loc[d].id = 1 /\ loc[d].uid = 1 /\ loc[d].err = "order not open"
    /\ \E c \in Returned :
        loc[c].id = 3 /\ loc[c].uid = 1 /\ loc[c].err = "order not open"

\* the order a trade of request p was made against, resting in the book
RestingIn(p, t) == IF loc[p].order.Type = "buy" THEN t.SellOrderID ELSE t.BuyOrderID

\* C12: a cancellation racing a match on the same resting order has one
\* winner: no PlaceOrder request records a trade against a resting order
\* whose cancellation has committed ('canceled' is persisted, the cancel
\* reports success).
C12_CancelOrMatch ==
    [][\A p \in DOMAIN pc :
        (/\ pc[p] = "trades"
         /\ <<pc'[p], loc'[p]>> # <<pc[p], loc[p]>>
         /\ dbTrades' = Append(dbTrades, CreateTrade(Head(loc[p].trades), clock)))
        => dbOrders[RestingIn(p, Head(loc[p].trades))].Status # "canceled"]_vars

\* ======================================= MatchOrder, statement by statement
\* PlaceOrder requests are goroutines that call MatchOrder on the one
\* Exchange with no lock held: the statements of concurrent calls
\* interleave.  Each goroutine makes one call on a book that holds up to
\* MaxOrders resting orders; call.pre keeps the book the calls started on.
NoFrame ==
    [newOrder |-> NoOrder, trades |-> <<>>, filledOrderIDs |-> <<>>, i |-> 0, tradeQty |-> 0]

RestingOrders(id) ==
    {Order(id, 1, t, p, q, "open", id) : t \in Sides, p \in Prices, q \in Qtys}

\* the books AddOrder builds from orders 1..n
RECURSIVE BooksOf(_)
BooksOf(n) ==
    IF n = 0 THEN {NewExchange}
    ELSE UNION {AddOrder(b, o) : b \in BooksOf(n - 1), o \in RestingOrders(n)}

InitRace ==
    /\ \E n \in 1..MaxOrders : \E b \in BooksOf(n) :
        /\ BuyOrders = b.BuyOrders
        /\ SellOrders = b.SellOrders
        /\ nextID = n + 1
        /\ call = [NoCall EXCEPT !.pre = b]
    /\ EmptyDB
    /\ pc = [p \in Procs |-> "idle"]
    /\ loc = [p \in Procs |-> NoFrame]
    /\ out = NoOut
    /\ canceledQty = [s \in Sides |-> 0]
    /\ tradedQty = 0

\* the side a call scans, as the Exchange holds it now
Resting(p) == IF loc[p].newOrder.Type = "buy" THEN SellOrders ELSE BuyOrders

SetResting(p, s) ==
    IF loc[p].newOrder.Type = "buy"
    THEN SellOrders' = s /\ UNCHANGED BuyOrders
    ELSE BuyOrders' = s /\ UNCHANGED SellOrders

\* entry of MatchOrder with the order DB.CreateOrder returned
RaceCall(p) ==
    /\ pc[p] = "idle"
    /\ \E order \in RestingOrders(nextID) :
        loc' = [loc EXCEPT ![p] = [NoFrame EXCEPT !.newOrder = order, !.i = 1]]
    /\ nextID' = nextID + 1
    /\ pc' = [pc EXCEPT ![p] = "loop"]
    /\ UNCHANGED <<bookVars, call, dbVars, out, canceledQty, tradedQty>>

\* one round of the loop up to the trade it appends: the loop condition, the
\* tests on status and price, the reads of the resting order
RaceScan(p) ==
    /\ pc[p] = "loop"
    /\ LET f == loc[p]
           s == Resting(p)
       IN IF f.i > Len(s)
          THEN /\ pc' = [pc EXCEPT ![p] = "cleanup"]
               /\ UNCHANGED loc
          ELSE IF s[f.i].Status # "open" \/ f.newOrder.Quantity <= 0
          THEN /\ loc' = [loc EXCEPT ![p].i = f.i + 1]
               /\ UNCHANGED pc
          ELSE IF Crosses(f.newOrder, s[f.i])
          THEN LET tradeQty == TradeQty(f.newOrder, s[f.i])
                   tradePrice == TradePrice(f.newOrder, s[f.i])
                   trade == IF f.newOrder.Type = "buy"
                            THEN Trade(f.newOrder.ID, s[f.i].ID, tradePrice, tradeQty)
                            ELSE Trade(s[f.i].ID, f.newOrder.ID, tradePrice, tradeQty)
               IN /\ loc' = [loc EXCEPT ![p].tradeQty = tradeQty,
                                        ![p].trades = Append(f.trades, trade)]
                  /\ pc' = [pc EXCEPT ![p] = "update"]
          ELSE /\ loc' = [loc EXCEPT ![p].i = f.i + 1]
               /\ UNCHANGED pc
    /\ UNCHANGED <<bookVars, nextID, call, dbVars, out, canceledQty, tradedQty>>

\* the rest of the round: the quantities, the filled ids, the break; the
\* index is out of range (the goroutine panics) when a concurrent call has
\* replaced the slice by a shorter one
RaceUpdate(p) ==
    /\ pc[p] = "update"
    /\ LET f == loc[p]
           s == Resting(p)
           newQ == f.newOrder.Quantity - f.tradeQty
       IN IF f.i > Len(s)
          THEN /\ loc' = [loc EXCEPT ![p].newOrder.Quantity = newQ]
               /\ pc' = [pc EXCEPT ![p] = "panic"]
               /\ UNCHANGED bookVars
          ELSE LET restQ == s[f.i].Quantity - f.tradeQty
                   filled1 == IF newQ <= 0 THEN Append(f.filledOrderIDs, f.newOrder.ID)
                                           ELSE f.filledOrderIDs
                   filled2 == IF restQ <= 0 THEN Append(filled1, s[f.i].ID) ELSE filled1
               IN /\ SetResting(p, [s EXCEPT ![f.i].Quantity = restQ,
                                             ![f.i].Status = IF restQ <= 0 THEN "filled" ELSE @])
                  /\ loc' = [loc EXCEPT ![p].newOrder.Quantity = newQ,
                                        ![p].filledOrderIDs = filled2,
                                        ![p].i = IF newQ <= 0 THEN f.i ELSE f.i + 1]
                  /\ pc' = [pc EXCEPT ![p] = IF newQ <= 0 THEN "cleanup" ELSE "loop"]
    /\ UNCHANGED <<nextID, call, dbVars, out, canceledQty, tradedQty>>

\* after the loop: cleanupOrderBook, AddOrder of the remainder, return
RaceReturn(p) ==
    /\ pc[p] = "cleanup"
    /\ LET cleaned == cleanupOrderBook(Book)
           books == IF loc[p].newOrder.Quantity > 0 /\ loc[p].newOrder.Status = "open"
                    THEN AddOrder(cleaned, loc[p].newOrder)
                    ELSE {cleaned}
       IN \E b \in books :
            /\ BuyOrders' = b.BuyOrders
            /\ SellOrders' = b.SellOrders
    /\ pc' = [pc EXCEPT ![p] = "returned"]
    /\ UNCHANGED <<nextID, call, dbVars, loc, out, canceledQty, tradedQty>>

NextRace == \E p \in Procs : RaceCall(p) \/ RaceScan(p) \/ RaceUpdate(p) \/ RaceReturn(p)

SpecRace == InitRace /\ [][NextRace]_vars

\* the quantity the calls of goroutines 1..n have traded against order id
RECURSIVE TradedAgainst(_, _)
TradedAgainst(id, n) ==
    IF n = 0 THEN 0
    ELSE LET hit(t) == id = (IF loc[n].newOrder.Type = "buy" THEN t.SellOrderID
                                                             ELSE t.BuyOrderID)
         IN SumQty(SelectSeq(loc[n].trades, hit)) + TradedAgainst(id, n - 1)

\* C13: the book sections of the requests exclude one another, so that two
\* concurrent submissions never both trade against the same remaining
\* quantity of a resting order: the total quantity traded against a resting
\* order never exceeds the quantity it entered the book with.
C13_NoOverTrade ==
    \A o \in {call.pre.BuyOrders[k] : k \in 1..Len(call.pre.BuyOrders)}
             \cup {call.pre.SellOrders[k] : k \in 1..Len(call.pre.SellOrders)} :
        TradedAgainst(o.ID, NumProcs) <= o.Quantity

\* the quantity of the persisted trades an order takes part in
PersistedQty(id) ==
    LET with(t) == t.BuyOrderID = id \/ t.SellOrderID = id
    IN SumQty(SelectSeq(dbTrades, with))

\* C14: no half-applied match in the store.  Whenever no request is in
\* flight, an order whose persisted trades add up to its quantity (the
\* match filled it) is persisted as 'filled', and an order persisted as
\* 'filled' has persisted trades that add up to its quantity.
C14_NoHalfApplied ==
    Quiescent =>
        \A i \in 1..Len(dbOrders) :
            PersistedQty(i) = dbOrders[i].Quantity <=> dbOrders[i].Status = "filled"

\* ================================================ one request at a time
\* The handlers with a single request goroutine: every request runs to its
\* response before the next one starts.
Serial == {1}

InitSeq ==
    /\ BuyOrders = NewExchange.BuyOrders
    /\ SellOrders = NewExchange.SellOrders
    /\ nextID = 1
    /\ call = NoCall
    /\ EmptyDB
    /\ IdleProcs(Serial)
    /\ canceledQty = [s \in Sides |-> 0]
    /\ tradedQty = 0

NextSeq ==
    \E p \in Serial :
        \/ PlaceOrderCreate(p)
        \/ PlaceOrderMatch(p)
        \/ PlaceOrderCreateTrade(p)
        \/ PlaceOrderUpdateStatus(p)
        \/ CancelOrderBegin(p)
        \/ CancelOrderCommit(p)
        \/ CancelOrderRemove(p)

SpecSeq == InitSeq /\ [][NextSeq]_vars

\* the book and the tables as they were when the request of p started
Before(p) == IF pc[p] = "idle" THEN Started ELSE loc[p].pre

\* C15: a PlaceOrder that ends with a persistence error (500) is aborted as
\* a whole: when it answers, the book, the persisted trades and the
\* persisted statuses of the orders that existed are what they were before
\* the submission.
C15_Aborted ==
    [][\A p \in DOMAIN pc :
        (out'.proc = p /\ out'.status = "500") =>
            /\ Book' = Before(p).book
            /\ dbTrades' = Before(p).trades
            /\ \A i \in 1..Len(Before(p).orders) :
                    dbOrders'[i].Status = Before(p).orders[i].Status]_vars

OpenIDs == {i \in 1..Len(dbOrders) : dbOrders[i].Status = "open"}

\* C16: the store and the book agree outside an operation.  Whenever no
\* request is in flight, the ids of the orders in the book are the ids of
\* the persisted orders with status 'open'.
C16_BookIsOpenOrders ==
    Quiescent => IDs(BuyOrders) \cup IDs(SellOrders) = OpenIDs

\* ====================================================== process restart
\* The server is stopped while no request is in flight and started again:
\* main builds a new Exchange from DB.GetOpenOrders.  call.pre keeps the
\* book the stopped process held.

\* SELECT ... WHERE status = 'open' ORDER BY created_at ASC: the sequences
\* the query can return (rows of equal created_at come in any order)
GetOpenOrdersMutAll == {dbOrders}

GetOpenOrders ==
    LET isOpen(o) == o.Status = "open"
        open == SelectSeq(dbOrders, isOpen)
        n == Len(open)
        perms == {f \in [1..n -> 1..n] : \A i, j \in 1..n : i # j => f[i] # f[j]}
    IN {t \in {[i \in 1..n |-> open[f[i]]] : f \in perms} :
            \A i, j \in 1..n : i < j => t[i].CreatedAt <= t[j].CreatedAt}

RECURSIVE LoadOpenOrdersMutTwice(_, _)
LoadOpenOrdersMutTwice(books, openOrders) ==
    IF openOrders = <<>> THEN books
    ELSE LET once == UNION {AddOrder(b, Head(openOrders)) : b \in books}
         IN LoadOpenOrdersMutTwice(UNION {AddOrder(b, Head(openOrders)) : b \in once},
                                   Tail(openOrders))

\* the loop of main over openOrders: the books it can leave behind
RECURSIVE LoadOpenOrders(_, _)
LoadOpenOrders(books, openOrders) ==
    IF openOrders = <<>> THEN books
    ELSE LoadOpenOrders(UNION {AddOrder(b, Head(openOrders)) : b \in books},
                        Tail(openOrders))

\* main up to the router: a failing GetOpenOrders is logged and the server
\* starts on an empty book
Restart ==
    /\ Quiescent
    /\ \/ /\ BuyOrders' = NewExchange.BuyOrders
          /\ SellOrders' = NewExchange.SellOrders
          /\ call' = [NoCall EXCEPT !.op = "LoadFailed", !.pre = Book]
       \/ \E openOrders \in GetOpenOrders :
          \E b \in LoadOpenOrders({NewExchange}, openOrders) :
            /\ BuyOrders' = b.BuyOrders
            /\ SellOrders' = b.SellOrders
            /\ call' = [NoCall EXCEPT !.op = "LoadOpenOrders", !.pre = Book]
    /\ Silent
    /\ UNCHANGED <<nextID, dbVars, pc, loc, canceledQty, tradedQty>>

NextRestart == NextSeq \/ Restart

SpecRestart == InitSeq /\ [][NextRestart]_vars

\* a step of Restart in which GetOpenOrders succeeded
Reloaded ==
    /\ UNCHANGED <<pc, loc, dbVars>>
    /\ out' = NoOut
    /\ call' = [NoCall EXCEPT !.op = "LoadOpenOrders", !.pre = Book]

IDSeq(s) == [i \in 1..Len(s) |-> s[i].ID]

\* C17: startup reconciliation.  The book main builds from the result of
\* GetOpenOrders holds exactly the persisted open orders, and on each side
\* the same sequence of order ids as the book of the stopped process.
C17_Reconciled ==
    [][Reloaded =>
        /\ IDs(BuyOrders') \cup IDs(SellOrders') = OpenIDs
        /\ IDSeq(BuyOrders') = IDSeq(BuyOrders)
        /\ IDSeq(SellOrders') = IDSeq(SellOrders)]_vars

\* C18: the book is a rebuildable cache of the store.  Whenever no request
\* is in flight, the book GetOpenOrders and AddOrder build from the store
\* is the live book, remaining quantities included.
C18_RebuildableCache ==
    Quiescent =>
        \A openOrders \in GetOpenOrders :
            \A b \in LoadOpenOrders({NewExchange}, openOrders) : b = Book

\* s with the element at index k left out
Without(s, k) == [i \in 1..(Len(s) - 1) |-> IF i < k THEN s[i] ELSE s[i + 1]]

\* what a side is after the order id was taken out of it
SideAfterRemove(s, id) == IF id \in IDs(s) THEN Without(s, Find(s, id)) ELSE s

\* C19: RemoveOrder(id) returns true if and only if an order with that id
\* was in the book, on either side; afterwards no order with that id is in
\* BuyOrders or SellOrders, and all other orders are still in the book, in
\* the same relative order.
C19_RemoveOrder ==
    call.op = "RemoveOrder" =>
        /\ call.found <=> call.id \in IDs(call.pre.BuyOrders) \cup IDs(call.pre.SellOrders)
        /\ call.id \notin IDs(BuyOrders) \cup IDs(SellOrders)
        /\ BuyOrders = SideAfterRemove(call.pre.BuyOrders, call.id)
        /\ SellOrders = SideAfterRemove(call.pre.SellOrders, call.id)

\* the second of three sell orders was removed
C19_Witness ==
    /\ call.op = "RemoveOrder"
    /\ call.found
    /\ Len(call.pre.SellOrders) = 3
    /\ call.pre.SellOrders[2].ID = call.id
    /\ Len(SellOrders) = 2

\* C20: a cancel request whose DB.CancelOrder succeeded answers 200 'Order
\* canceled' whether or not RemoveOrder finds the order in the book; the
\* step changes no persisted order, so a miss leaves the status 'canceled'
\* as the transaction set it.
C20_CancelReported ==
    [][\A p \in DOMAIN pc :
        (pc[p] = "cancel_remove" /\ pc'[p] # "cancel_remove") =>
            /\ out' = [proc |-> p, status |-> "200", text |-> "Order canceled"]
            /\ dbOrders' = dbOrders]_vars

\* a cancel has just answered 200 although RemoveOrder missed, and the
\* order is persisted as 'canceled'
C20_Witness ==
    /\ call.op = "RemoveOrder"
    /\ ~call.found
    /\ out.status = "200"
    /\ out.text = "Order canceled"
    /\ dbOrders[call.id].Status = "canceled"

\* ================================================ submissions, valid or not
\* PlaceOrder requests run one at a time, next to direct calls of
\* DB.CreateOrder with any order, as TestDB_CreateOrder makes them; call
\* keeps the order handed to the last direct call and whether it succeeded.
TestCreateOrder ==
    /\ nextID <= MaxOrders
    /\ \E uid \in Users \cup {0}, type \in Sides \cup {"invalid"},
          price \in (-1)..MaxPrice, qty \in 0..MaxQty :
        LET order == Order(0, uid, type, price, qty, "open", 0)
            err == CreateOrderError(order)
        IN \/ /\ call' = [NoCall EXCEPT !.op = "CreateOrder", !.order = order, !.found = FALSE]
              /\ UNCHANGED <<dbOrders, nextID, clock>>
           \/ /\ err = "nil"
              /\ call' = [NoCall EXCEPT !.op = "CreateOrder", !.order = order, !.found = TRUE]
              /\ dbOrders' = Append(dbOrders, CreateOrder(order, clock))
              /\ nextID' = nextID + 1
              /\ clock' = clock + 1
    /\ Silent
    /\ UNCHANGED <<bookVars, dbTrades, rowLock, pc, loc, canceledQty, tradedQty>>

NextCreate ==
    \/ TestCreateOrder
    \/ \E p \in Serial :
        \/ PlaceOrderCreate(p)
        \/ PlaceOrderMatch(p)
        \/ PlaceOrderCreateTrade(p)
        \/ PlaceOrderUpdateStatus(p)

SpecCreate == InitSeq /\ [][NextCreate]_vars

\* side, price or quantity of the order is not acceptable
Malformed(o) == o.Type \notin {"buy", "sell"} \/ o.Price <= 0 \/ o.Quantity <= 0

\* the answers Handler.PlaceOrder gives to invalid input
Rejections == {"Type must be 'buy' or 'sell'", "Price and quantity must be positive"}

\* C21: invalid submissions are rejected before persistence and never
\* partially applied.  No persisted order has a side other than 'buy' or
\* 'sell', a price <= 0 or a quantity <= 0; a DB.CreateOrder call with such
\* an order fails; a PlaceOrder request answered with a validation error
\* persists no order and no trade and leaves the book unchanged.
C21_InvalidRejected ==
    [][/\ \A i \in 1..Len(dbOrders') : ~Malformed(dbOrders'[i])
       /\ (call'.op = "CreateOrder" /\ Malformed(call'.order)) => ~call'.found
       /\ (out'.status = "400" /\ out'.text \in Rejections) =>
            UNCHANGED <<dbOrders, dbTrades, BuyOrders, SellOrders>>]_vars

\* a direct call with quantity 0 failed while a valid order is persisted,
\* and a request was answered with a validation error
C21_Witness ==
    /\ call.op = "CreateOrder"
    /\ call.order.Quantity = 0
    /\ ~call.found
    /\ Len(dbOrders) > 0
    /\ out.status = "400"
    /\ out.text = "Price and quantity must be positive"

\* why the cancel of a returned caller was rejected
RejectReason(c) ==
    IF loc[c].id \notin 1..Len(dbOrders) THEN "not found"
    ELSE IF dbOrders[loc[c].id].UserID # loc[c].uid THEN "not yours"
    ELSE "already terminal"

\* C22: a rejected cancellation reports a specific reason: calls rejected
\* for different reasons (unknown id, order of another user, order already
\* filled or canceled) return different errors.
C22_SpecificReason ==
    \A c, d \in Returned :
        (/\ loc[c].err # "nil"
         /\ loc[d].err # "nil"
         /\ RejectReason(c) # RejectReason(d))
        => loc[c].err # loc[d].err

\* C23: GetOrderBook returns the bids and the asks in priority order and
\* does not change the book: BuyOrders and SellOrders are the same before
\* and after the call.
C23_Snapshot ==
    call.op = "GetOrderBook" =>
        /\ call.ret.BuyOrders = call.pre.BuyOrders
        /\ call.ret.SellOrders = call.pre.SellOrders
        /\ PriceTimeSorted(call.ret.BuyOrders, "buy")
        /\ PriceTimeSorted(call.ret.SellOrders, "sell")
        /\ Book = call.pre

\* a snapshot of a book with two bids at different prices and an ask
C23_Witness ==
    /\ call.op = "GetOrderBook"
    /\ Len(call.ret.BuyOrders) = 2
    /\ call.ret.BuyOrders[1].Price > call.ret.BuyOrders[2].Price
    /\ Len(call.ret.SellOrders) = 1
    /\ Len(BuyOrders) = 2

\* ================================================ the trade history, alone
\* The gateway driven call by call: DB.CreateOrder, DB.CreateTrade between
\* a persisted buy and a persisted sell order, and DB.GetUserTrades; call
\* keeps the user and the rows of the last query.
TestCreateTrade ==
    /\ Len(dbTrades) < MaxTrades
    /\ \E b, s \in 1..Len(dbOrders), price \in Prices, qty \in Qtys :
        /\ dbOrders[b].Type = "buy"
        /\ dbOrders[s].Type = "sell"
        /\ dbTrades' = Append(dbTrades, CreateTrade(Trade(b, s, price, qty), clock))
    /\ \E later \in {clock, clock + 1} : clock' = later
    /\ Silent
    /\ UNCHANGED <<bookVars, nextID, call, dbOrders, rowLock, pc, loc, canceledQty, tradedQty>>

TestGetUserTrades ==
    /\ \E userID \in Users : \E rows \in GetUserTrades(userID) :
        call' = [NoCall EXCEPT !.op = "GetUserTrades", !.id = userID, !.trades = rows]
    /\ Silent
    /\ UNCHANGED <<bookVars, nextID, dbVars, pc, loc, canceledQty, tradedQty>>

NextTrades == TestCreateOrder \/ TestCreateTrade \/ TestGetUserTrades

SpecTrades == InitSeq /\ [][NextTrades]_vars

\* C24: the trade history query for an owner returns that owner's trades in
\* execution-time order: ExecutedAt does not decrease along the result.
C24_TradesInTimeOrder ==
    call.op = "GetUserTrades" =>
        \A i, j \in 1..Len(call.trades) :
            i < j => call.trades[i].ExecutedAt <= call.trades[j].ExecutedAt

\* the opposing side as the loop of the last MatchOrder call left it, before
\* cleanupOrderBook ran
Scanned == MatchLoop(Opposing, call.order, 1, <<>>, <<>>).resting

\* C25: after every MatchOrder call every order held in the book has status
\* 'open' and a strictly positive remaining quantity; a resting order whose
\* remaining quantity reached zero in the call was marked 'filled' by the
\* loop and is on neither side of the book afterwards.
C25_BookLive ==
    Matched =>
        /\ \A s \in {BuyOrders, SellOrders} : \A i \in 1..Len(s) :
            s[i].Status = "open" /\ s[i].Quantity > 0
        /\ \A i \in 1..Len(Opposing) : FullyFilled(Opposing[i]) =>
            /\ Scanned[i].ID = Opposing[i].ID
            /\ Scanned[i].Quantity = 0
            /\ Scanned[i].Status = "filled"
            /\ Opposing[i].ID \notin IDs(BuyOrders) \cup IDs(SellOrders)

\* a call that filled one resting order and left another one, partially
\* filled, in the book
C25_Witness ==
    /\ Matched
    /\ \E i, j \in 1..Len(Opposing) :
        /\ FullyFilled(Opposing[i])
        /\ Opposing[i].ID \notin IDs(OpposingAfter)
        /\ Opposing[j].ID \in TradedIDs
        /\ Opposing[j].ID \in IDs(OpposingAfter)

FilledIDs == {call.filled[k] : k \in 1..Len(call.filled)}
IncomingFilled == SumQty(call.trades) = call.order.Quantity

\* C26: the filledOrderIDs of a MatchOrder call are exactly the ids of the
\* orders, incoming or resting, whose remaining quantity reached zero in the
\* call, each id listed once; an order with quantity left is not listed.
C26_FilledIDs ==
    Matched =>
        /\ \A k, l \in 1..Len(call.filled) : k # l => call.filled[k] # call.filled[l]
        /\ call.order.ID \in FilledIDs <=> IncomingFilled
        /\ \A i \in 1..Len(Opposing) :
            Opposing[i].ID \in FilledIDs <=> FullyFilled(Opposing[i])
        /\ FilledIDs \subseteq {call.order.ID} \cup IDs(Opposing)

\* a call that filled a resting order and then the incoming order, against
\* a second resting order that kept quantity and is not listed
C26_Witness ==
    /\ Matched
    /\ Len(call.filled) = 2
    /\ call.order.ID \in FilledIDs
    /\ \E i \in 1..Len(Opposing) :
        /\ Opposing[i].ID \in TradedIDs
        /\ ~FullyFilled(Opposing[i])
        /\ Opposing[i].ID \notin FilledIDs

\* the incoming order's side of the book, before and after the last call
Own == IF call.order.Type = "buy" THEN call.pre.BuyOrders ELSE call.pre.SellOrders
OwnAfter == IF call.order.Type = "buy" THEN BuyOrders ELSE SellOrders
IncomingRest == call.order.Quantity - SumQty(call.trades)
Count(s, id) == Cardinality({i \in 1..Len(s) : s[i].ID = id})

\* C27: after MatchOrder an incoming order with quantity left is in its own
\* side of the book, once, with its submitted quantity minus the sum of the
\* quantities of its trades, and not on the other side; an incoming order
\* that was fully filled is on neither side.
C27_RemainderInserted ==
    Matched =>
        /\ IncomingRest >= 0
        /\ IncomingRest > 0 =>
            /\ Count(OwnAfter, call.order.ID) = 1
            /\ OwnAfter[Find(OwnAfter, call.order.ID)]
                   = [call.order EXCEPT !.Quantity = IncomingRest]
            /\ Len(OwnAfter) = Len(Own) + 1
            /\ call.order.ID \notin IDs(OpposingAfter)
        /\ IncomingRest = 0 =>
            /\ call.order.ID \notin IDs(OwnAfter) \cup IDs(OpposingAfter)
            /\ OwnAfter = Own

\* an incoming order that traded, kept quantity and rests behind an order
\* that was already on its side
C27_Witness ==
    /\ Matched
    /\ Len(call.trades) > 0
    /\ IncomingRest > 0
    /\ IncomingRest < call.order.Quantity
    /\ Len(OwnAfter) = 2
    /\ OwnAfter[2].ID = call.order.ID
    /\ OwnAfter[2].Quantity = IncomingRest

\* no open resting order of the opposing side is priced within the limit of
\* the incoming order of the last call
NoneCrosses ==
    \A i \in 1..Len(Opposing) :
        \/ Opposing[i].Status # "open"
        \/ call.order.Type = "buy" /\ Opposing[i].Price > call.order.Price
        \/ call.order.Type = "sell" /\ Opposing[i].Price < call.order.Price

\* C28: no-match case.  When no open resting order of the opposing side
\* crosses the incoming order's price, MatchOrder returns no trade and no
\* filled id, leaves the opposing side as it was, and inserts the incoming
\* order into its own side with its full quantity, beside the orders that
\* were there.
C28_NoMatch ==
    (Matched /\ NoneCrosses) =>
        /\ call.trades = <<>>
        /\ call.filled = <<>>
        /\ OpposingAfter = Opposing
        /\ Len(OwnAfter) = Len(Own) + 1
        /\ Count(OwnAfter, call.order.ID) = 1
        /\ {OwnAfter[k] : k \in 1..Len(OwnAfter)}
               = {Own[k] : k \in 1..Len(Own)} \cup {call.order}

\* an incoming order that met a resting order outside its limit and went
\* into its own side, ahead of an order that was there
C28_Witness ==
    /\ Matched
    /\ NoneCrosses
    /\ Len(Opposing) = 1
    /\ OpposingAfter = Opposing
    /\ call.trades = <<>>
    /\ Len(OwnAfter) = 2
    /\ OwnAfter[1] = call.order

\* trade k of the last call left quantity in its resting order
PartialFill(k) == IncomingLeft(k) < RestingOf(call.trades[k]).Quantity

\* C29: partial fill of a resting order.  When the incoming order has less
\* quantity left than the resting order it trades with, the resting order
\* stays in the book with status 'open' and its quantity reduced by exactly
\* the trade quantity, keeps its place relative to the other orders that
\* stay, and is not in filledOrderIDs.
C29_PartialFill ==
    Matched =>
        \A k \in 1..Len(call.trades) : PartialFill(k) =>
            LET o == RestingOf(call.trades[k])
                left == [o EXCEPT !.Quantity = o.Quantity - call.trades[k].Quantity]
            IN /\ Count(OpposingAfter, o.ID) = 1
               /\ OpposingAfter[Find(OpposingAfter, o.ID)] = left
               /\ left.Status = "open"
               /\ left.Quantity > 0
               /\ o.ID \notin FilledIDs
               /\ \A i \in 1..Len(Opposing) :
                   Opposing[i].ID \in IDs(OpposingAfter) \ {o.ID} =>
                       (i < Find(Opposing, o.ID)
                           <=> Find(OpposingAfter, Opposing[i].ID)
                                   < Find(OpposingAfter, o.ID))

\* a resting order at the head of its side that was partially filled and is
\* still ahead of the order that was behind it
C29_Witness ==
    /\ Matched
    /\ Len(call.trades) = 1
    /\ PartialFill(1)
    /\ Len(Opposing) = 2
    /\ Len(OpposingAfter) = 2
    /\ OpposingAfter[1].ID = RestingID(call.trades[1])
    /\ OpposingAfter[1].Quantity < Opposing[1].Quantity
    /\ OpposingAfter[2] = Opposing[2]

\* C30: one MatchOrder call may make several trades, but each resting order
\* is a party to at most one trade of the call, and the other party of every
\* trade of the call is the incoming order.
C30_OneTradePerResting ==
    Matched =>
        /\ \A k, l \in 1..Len(call.trades) :
            k # l => RestingID(call.trades[k]) # RestingID(call.trades[l])
        /\ \A k \in 1..Len(call.trades) :
            /\ IncomingID(call.trades[k]) = call.order.ID
            /\ RestingID(call.trades[k]) \in IDs(Opposing)
            /\ RestingID(call.trades[k]) # call.order.ID

\* a call that made two trades, with two resting orders
C30_Witness ==
    /\ Matched
    /\ Len(call.trades) = 2
    /\ RestingID(call.trades[1]) # RestingID(call.trades[2])
    /\ IncomingID(call.trades[1]) = call.order.ID
    /\ IncomingID(call.trades[2]) = call.order.ID

\* a resting order the incoming order of the last call could still trade with
StillCrosses(o) ==
    /\ o.Status = "open"
    /\ o.Quantity > 0
    /\ call.order.Type = "buy" => o.Price <= call.order.Price
    /\ call.order.Type = "sell" => o.Price >= call.order.Price

\* C31: matching is maximal.  When MatchOrder returns, either the incoming
\* order has no quantity left or no open resting order with positive
\* quantity on the opposing side crosses the incoming order's price.
C31_Maximal ==
    Matched =>
        \/ IncomingRest = 0
        \/ \A i \in 1..Len(OpposingAfter) : ~StillCrosses(OpposingAfter[i])

\* a call that took all of a resting order at its own limit price, kept
\* quantity, and stopped at a resting order outside its limit
C31_Witness ==
    /\ Matched
    /\ IncomingRest > 0
    /\ Len(call.trades) = 1
    /\ call.trades[1].Price = call.order.Price
    /\ Len(OpposingAfter) = 1
    /\ ~StillCrosses(OpposingAfter[1])

\* ------------------------------------------- the Exchange on any entries
\* AddOrder takes any order value: it checks neither Status nor Quantity.
\* A row of quantity 0.00000000 and status 'open' is what DECIMAL(10,8) keeps
\* of a positive quantity below 0.000000005, and main hands every row of
\* GetOpenOrders to AddOrder; an entry marked 'filled' is what a call in
\* progress leaves in the slice until its cleanupOrderBook
Statuses == {"open", "filled", "canceled"}

AnyOrders(id) ==
    {Order(id, 1, t, p, q, s, 1) :
        t \in Sides, p \in Prices, q \in 0..MaxQty, s \in Statuses}

ExAddAnyOrder ==
    /\ nextID <= MaxCalls
    /\ \E order \in AnyOrders(nextID) : \E b \in AddOrder(Book, order) :
        /\ BuyOrders' = b.BuyOrders
        /\ SellOrders' = b.SellOrders
        /\ call' = [NoCall EXCEPT !.op = "AddOrder", !.order = order, !.pre = Book]
    /\ nextID' = nextID + 1
    /\ UNCHANGED <<dbVars, procVars, canceledQty, tradedQty>>

NextAny == ExAddAnyOrder \/ ExMatchOrder

SpecAny == InitBook /\ [][NextAny]_vars

\* C32: MatchOrder makes no trade against a resting order whose status is
\* not 'open' or whose remaining quantity is not strictly positive: such an
\* entry is skipped and left unmatched.
C32_SkipsDeadEntries ==
    Matched =>
        \A i \in 1..Len(Opposing) :
            (Opposing[i].Status # "open" \/ Opposing[i].Quantity <= 0)
                => Opposing[i].ID \notin TradedIDs

\* the half of C32 that the loop does implement: an entry whose status is
\* not 'open' is never traded against
C32_SkipsNonOpen ==
    Matched =>
        \A i \in 1..Len(Opposing) :
            Opposing[i].Status # "open" => Opposing[i].ID \notin TradedIDs

\* the rows after Before(p).trades are those of trades, in their order
PersistedAs(rows, old, trades) ==
    /\ Len(rows) = Len(old) + Len(trades)
    /\ SubSeq(rows, 1, Len(old)) = old
    /\ \A k \in 1..Len(trades) :
        LET row == rows[Len(old) + k]
        IN /\ row.BuyOrderID = trades[k].BuyOrderID
           /\ row.SellOrderID = trades[k].SellOrderID
           /\ row.Price = trades[k].Price
           /\ row.Quantity = trades[k].Quantity

\* C33: when a PlaceOrder request answers 201, the store holds one trade row
\* for each trade its MatchOrder call produced (same order ids, price and
\* quantity), every order of filledOrderIDs is persisted as 'filled', and an
\* incoming order with a remainder is persisted as 'open' and rests in the
\* book with that remainder.
C33_PlacedPersisted ==
    [][\A p \in DOMAIN pc :
        (out'.proc = p /\ out'.status = "201") =>
            \E r \in MatchOrder(Before(p).book, loc[p].order) :
                LET order == loc[p].order
                    rest == order.Quantity - SumQty(r.trades)
                IN /\ PersistedAs(dbTrades', Before(p).trades, r.trades)
                   /\ \A k \in 1..Len(r.filledOrderIDs) :
                       dbOrders'[r.filledOrderIDs[k]].Status = "filled"
                   /\ rest > 0 =>
                       /\ dbOrders'[order.ID].Status = "open"
                       /\ \E s \in {BuyOrders', SellOrders'} : \E i \in 1..Len(s) :
                           s[i] = [order EXCEPT !.Quantity = rest]]_vars

\* a submission has just answered 201 after one trade: the resting order is
\* persisted as 'filled', the trade has its row, and the incoming order is
\* persisted as 'open' and rests in the book with its remainder
C33_Witness ==
    /\ out.status = "201"
    /\ Len(dbTrades) = 1
    /\ Len(dbOrders) = 2
    /\ dbTrades[1].Quantity < dbOrders[2].Quantity
    /\ dbOrders[1].Status = "filled"
    /\ dbOrders[2].Status = "open"
    /\ \E s \in {BuyOrders, SellOrders} : Len(s) = 1 /\ s[1].ID = 2
    /\ tradedQty = dbTrades[1].Quantity

\* ============================================================ book query
\* Handler.GetOrderBook, next to the requests of SpecSeq: it reads the open
\* orders from the store, splits them by Type and sorts each side; call.ret
\* keeps the two lists it wrote
HandlerGetOrderBook ==
    /\ \E p \in Serial :
        /\ pc[p] = "idle"
        /\ \/ /\ Respond(p, "500", "Failed to retrieve order book")
              /\ UNCHANGED call
           \/ \E orders \in GetOpenOrders :
                LET isBuy(o) == o.Type = "buy"
                    isSell(o) == ~isBuy(o)
                IN \E buyOrders \in SortSlice(SelectSeq(orders, isBuy), "buy"),
                      sellOrders \in SortSlice(SelectSeq(orders, isSell), "sell") :
                    /\ call' = [NoCall EXCEPT !.op = "GetOrderBook",
                                              !.ret = [BuyOrders |-> buyOrders,
                                                       SellOrders |-> sellOrders]]
                    /\ Respond(p, "200", "order book")
    /\ UNCHANGED <<bookVars, nextID, dbVars, pc, loc, canceledQty, tradedQty>>

NextQuery == NextSeq \/ HandlerGetOrderBook

SpecQuery == InitSeq /\ [][NextQuery]_vars

Answered == out.status = "200" /\ out.text = "order book"
Rows(s) == {s[i] : i \in 1..Len(s)}

\* C34: the book query returns exactly the persisted orders with status
\* 'open', each once, the buys as bids and the sells as asks, bids sorted by
\* price descending and asks by price ascending, ties by creation time
\* ascending; an order persisted as filled or canceled is not in the answer.
C34_BookQuery ==
    Answered =>
        LET bids == call.ret.BuyOrders
            asks == call.ret.SellOrders
        IN /\ Rows(bids) \cup Rows(asks) = {dbOrders[i] : i \in OpenIDs}
           /\ Len(bids) + Len(asks) = Cardinality(OpenIDs)
           /\ \A i \in 1..Len(bids) : bids[i].Type = "buy"
           /\ \A i \in 1..Len(asks) : asks[i].Type = "sell"
           /\ PriceTimeSorted(bids, "buy")
           /\ PriceTimeSorted(asks, "sell")
           /\ \A i \in 1..Len(dbOrders) : dbOrders[i].Status # "open" =>
                  dbOrders[i].ID \notin IDs(bids) \cup IDs(asks)

\* the query has just answered with one open order while another order is
\* persisted as filled or canceled
C34_Witness ==
    /\ Answered
    /\ Len(call.ret.BuyOrders) + Len(call.ret.SellOrders) = 1
    /\ \E i \in 1..Len(dbOrders) : dbOrders[i].Status \in {"filled", "canceled"}

\* C35: MatchOrder preserves the priority order of the book: if both sides
\* were sorted (price, then CreatedAt) before the call, both sides are sorted
\* after it, whatever it filled partially, removed or inserted.
C35_MatchKeepsOrder ==
    (/\ Matched
     /\ PriceTimeSorted(call.pre.BuyOrders, "buy")
     /\ PriceTimeSorted(call.pre.SellOrders, "sell"))
        => /\ PriceTimeSorted(BuyOrders, "buy")
           /\ PriceTimeSorted(SellOrders, "sell")

\* a call on a sorted book that filled and removed a resting order and put
\* its remainder ahead of an order that was on its side
C35_Witness ==
    /\ Matched
    /\ PriceTimeSorted(call.pre.BuyOrders, "buy")
    /\ PriceTimeSorted(call.pre.SellOrders, "sell")
    /\ Len(Opposing) = 1
    /\ FullyFilled(Opposing[1])
    /\ OpposingAfter = <<>>
    /\ Len(Own) = 1
    /\ Len(OwnAfter) = 2
    /\ OwnAfter[1].ID = call.order.ID
    /\ OwnAfter[1].Price # OwnAfter[2].Price

\* ================================================ the book of the engine
\* The Exchange as the handlers drive it once the server runs: orders enter
\* the book through MatchOrder only, and leave it when they are filled or
\* removed
NextEngine == ExMatchOrder \/ ExRemoveOrder

SpecEngine == InitBook /\ [][NextEngine]_vars

\* C36: the book is never crossed.  From an empty book, after any sequence
\* of MatchOrder and RemoveOrder calls run one at a time, every bid is priced
\* strictly below every ask.
C36_NeverCrossed ==
    \A i \in 1..Len(BuyOrders), j \in 1..Len(SellOrders) :
        BuyOrders[i].Price < SellOrders[j].Price

\* a call that traded at its limit, rests with its remainder and faces an
\* order priced outside its limit
C36_Witness ==
    /\ Matched
    /\ Len(call.trades) = 1
    /\ call.trades[1].Price = call.order.Price
    /\ Len(OwnAfter) = 1
    /\ OwnAfter[1].ID = call.order.ID
    /\ Len(OpposingAfter) = 1

\* C37: each order id is in the book at most once.  After startup loading
\* and any sequence of PlaceOrder and CancelOrder requests no id occurs twice
\* in BuyOrders and SellOrders taken together, and BuyOrders holds orders of
\* type 'buy' only, SellOrders orders of type 'sell' only.
C37_UniqueIDs ==
    /\ \A id \in IDs(BuyOrders) \cup IDs(SellOrders) :
        Count(BuyOrders, id) + Count(SellOrders, id) = 1
    /\ \A i \in 1..Len(BuyOrders) : BuyOrders[i].Type = "buy"
    /\ \A i \in 1..Len(SellOrders) : SellOrders[i].Type = "sell"

\* a book that was loaded from the store at startup with one order and took
\* a second one from a submission that answered 201
C37_Witness ==
    /\ call.op = "LoadOpenOrders"
    /\ call.pre # NewExchange
    /\ out.status = "201"
    /\ Len(BuyOrders) + Len(SellOrders) = 2
    /\ IDs(BuyOrders) \cup IDs(SellOrders) = {1, 2}

\* the orders a trade of the last call can name: the incoming order and the
\* orders of the side it was matched against
Parties == Rows(Opposing) \cup {call.order}
TypeOf(id) == {o.Type : o \in {x \in Parties : x.ID = id}}

\* C38: every trade of a MatchOrder call names as BuyOrderID an order of
\* type 'buy' and as SellOrderID an order of type 'sell', the two ids are
\* different, and exactly one of them is the id of the incoming order.
C38_TradeParties ==
    Matched =>
        \A k \in 1..Len(call.trades) :
            LET t == call.trades[k]
            IN /\ TypeOf(t.BuyOrderID) = {"buy"}
               /\ TypeOf(t.SellOrderID) = {"sell"}
               /\ t.BuyOrderID # t.SellOrderID
               /\ (t.BuyOrderID = call.order.ID) # (t.SellOrderID = call.order.ID)

\* an incoming sell that traded with two resting buys
C38_Witness ==
    /\ Matched
    /\ call.order.Type = "sell"
    /\ Len(call.trades) = 2
    /\ \A k \in 1..2 :
        /\ call.trades[k].SellOrderID = call.order.ID
        /\ call.trades[k].BuyOrderID \in IDs(call.pre.BuyOrders)

CancelErrors ==
    {"order not found or not owned by user", "order not open",
     "order not found, not owned by user, or not open"}

\* this step is the answer of a failed cancel request of p
CancelFailed(p) == out'.proc = p /\ out'.status = "400" /\ out'.text \in CancelErrors

\* C39: a cancel request that fails changes nothing.  A cancel gets past the
\* checks of DB.CancelOrder only for an open order of the caller; the step
\* that answers a failure, and the steps of the request before it, leave the
\* persisted orders and the book as they are, and RemoveOrder is not called.
C39_FailedCancelFrame ==
    [][\A p \in DOMAIN pc :
        /\ CancelFailed(p) =>
            /\ pc[p] \in {"idle", "cancel_tx"}
            /\ pc'[p] = "idle"
            /\ UNCHANGED <<dbOrders, BuyOrders, SellOrders, call>>
        /\ (pc[p] = "idle" /\ pc'[p] = "cancel_tx") =>
            /\ loc'[p].id \in 1..Len(dbOrders)
            /\ dbOrders[loc'[p].id].UserID = loc'[p].uid
            /\ dbOrders[loc'[p].id].Status = "open"
            /\ UNCHANGED <<dbOrders, BuyOrders, SellOrders, call>>
        /\ (pc[p] # "cancel_remove" /\ pc'[p] = "cancel_remove") =>
            /\ pc[p] = "cancel_tx"
            /\ out'.status # "400"]_vars

\* a cancel of an order that is not open has just been refused while the
\* book holds an order and the store holds an order that is not open
C39_Witness ==
    /\ out.status = "400"
    /\ out.text = "order not open"
    /\ Len(BuyOrders) + Len(SellOrders) > 0
    /\ \E i \in 1..Len(dbOrders) : dbOrders[i].Status # "open"
    /\ pc[out.proc] = "idle"

\* C40: GetUserTrades returns each trade that involves the user at most
\* once, also when the user owns both the buy order and the sell order of
\* the trade.
C40_TradesOnce ==
    call.op = "GetUserTrades" =>
        \A i, j \in 1..Len(call.trades) :
            i # j => call.trades[i].ID # call.trades[j].ID

====
